---- MODULE Spec2Model ----
(***************************************************************************)
(* A model of src/helpers.py: display_as_percentage, calculate_log_return, *)
(* calculate_variance, calculate_stddev, calculate_correlation and the two *)
(* module-level price lists.                                               *)
(*                                                                         *)
(* Numbers.  A Python number is modelled by the exact rational it denotes: *)
(* a record [num, den] of arbitrary-precision integers with den > 0.       *)
(* Python's int is arbitrary precision, so sums, products and powers of    *)
(* ints are exact in the program as they are here; a float is modelled by  *)
(* the decimal its literal denotes and its arithmetic is exact (binary     *)
(* rounding of float operations is outside the model).  math.sqrt and      *)
(* math.log return symbolic exact values: [sqrt |-> q] and [log |-> q].    *)
(*                                                                         *)
(* A call ends in an outcome: [kind |-> "return", value |-> v] or          *)
(* [kind |-> "raise", exc |-> name of the Python exception].               *)
(***************************************************************************)
EXTENDS Integers, Sequences, FiniteSets, TLC

(***************************************************************************)
(* Arbitrary-precision integers (Python int).  A magnitude is a sequence   *)
(* of limbs in base Base, least significant first, without leading zero    *)
(* limbs; an integer is [neg, mag], zero being [FALSE, <<>>].              *)
(***************************************************************************)
Base == 10000

RECURSIVE NatOf(_)
NatOf(k) == IF k = 0 THEN <<>> ELSE <<k % Base>> \o NatOf(k \div Base)

RECURSIVE Strip(_)
Strip(a) ==
    IF a = <<>> THEN <<>>
    ELSE IF a[Len(a)] = 0 THEN Strip(SubSeq(a, 1, Len(a) - 1)) ELSE a

RECURSIVE NatAddC(_, _, _)
NatAddC(a, b, c) ==
    IF a = <<>> /\ b = <<>> THEN (IF c = 0 THEN <<>> ELSE <<c>>)
    ELSE LET x == IF a = <<>> THEN 0 ELSE Head(a)
             y == IF b = <<>> THEN 0 ELSE Head(b)
             s == x + y + c
         IN  <<s % Base>> \o NatAddC(IF a = <<>> THEN a ELSE Tail(a),
                                     IF b = <<>> THEN b ELSE Tail(b),
                                     s \div Base)

NatAdd(a, b) == NatAddC(a, b, 0)

\* a - b for magnitudes with a >= b (limbs may end in zeros: Strip it)
RECURSIVE NatSubB(_, _, _)
NatSubB(a, b, c) ==
    IF a = <<>> THEN <<>>
    ELSE LET y == IF b = <<>> THEN 0 ELSE Head(b)
             s == Head(a) - y - c
         IN  <<IF s < 0 THEN s + Base ELSE s>>
             \o NatSubB(Tail(a), IF b = <<>> THEN b ELSE Tail(b),
                        IF s < 0 THEN 1 ELSE 0)

NatSub(a, b) == Strip(NatSubB(a, b, 0))

\* -1, 0, 1 as a < b, a = b, a > b
RECURSIVE NatCmpTop(_, _, _)
NatCmpTop(a, b, i) ==
    IF i = 0 THEN 0
    ELSE IF a[i] < b[i] THEN -1
    ELSE IF a[i] > b[i] THEN 1
    ELSE NatCmpTop(a, b, i - 1)

NatCmp(a, b) ==
    IF Len(a) < Len(b) THEN -1
    ELSE IF Len(a) > Len(b) THEN 1
    ELSE NatCmpTop(a, b, Len(a))

RECURSIVE NatMulLimb(_, _, _)
NatMulLimb(a, d, c) ==
    IF a = <<>> THEN (IF c = 0 THEN <<>> ELSE <<c>>)
    ELSE LET s == Head(a) * d + c
         IN  <<s % Base>> \o NatMulLimb(Tail(a), d, s \div Base)

RECURSIVE NatMul(_, _)
NatMul(a, b) ==
    IF a = <<>> \/ b = <<>> THEN <<>>
    ELSE NatAdd(NatMulLimb(a, Head(b), 0),
                LET r == NatMul(a, Tail(b))
                IN  IF r = <<>> THEN r ELSE <<0>> \o r)

(***************************************************************************)
(* Signed integers.                                                        *)
(***************************************************************************)
IntOf(k) == [neg |-> k < 0, mag |-> NatOf(IF k < 0 THEN 0 - k ELSE k)]

IntSign(a) == IF a.mag = <<>> THEN 0 ELSE IF a.neg THEN -1 ELSE 1

IntNeg(a) == IF a.mag = <<>> THEN a ELSE [neg |-> ~a.neg, mag |-> a.mag]

IntAdd(a, b) ==
    IF a.neg = b.neg THEN [neg |-> a.neg, mag |-> NatAdd(a.mag, b.mag)]
    ELSE LET c == NatCmp(a.mag, b.mag)
         IN  IF c = 0 THEN [neg |-> FALSE, mag |-> <<>>]
             ELSE IF c > 0 THEN [neg |-> a.neg, mag |-> NatSub(a.mag, b.mag)]
             ELSE [neg |-> b.neg, mag |-> NatSub(b.mag, a.mag)]

IntSub(a, b) == IntAdd(a, IntNeg(b))

IntMul(a, b) ==
    LET m == NatMul(a.mag, b.mag)
    IN  [neg |-> (m # <<>>) /\ (a.neg # b.neg), mag |-> m]

(***************************************************************************)
(* Exact numbers [num, den] with den > 0, not reduced to lowest terms: two *)
(* records may denote one number, so numbers are compared by Sign and Eq.  *)
(***************************************************************************)
Num(n, d) == [num |-> IntOf(n), den |-> IntOf(d)]

Zero == Num(0, 1)

Sign(a) == IntSign(a.num)

Add(a, b) ==
    IF a.den = b.den THEN [num |-> IntAdd(a.num, b.num), den |-> a.den]
    ELSE [num |-> IntAdd(IntMul(a.num, b.den), IntMul(b.num, a.den)),
          den |-> IntMul(a.den, b.den)]

Neg(a) == [num |-> IntNeg(a.num), den |-> a.den]

Sub(a, b) == Add(a, Neg(b))

Mul(a, b) == [num |-> IntMul(a.num, b.num), den |-> IntMul(a.den, b.den)]

Return(v) == [kind |-> "return", value |-> v]

Raise(e) == [kind |-> "raise", exc |-> e]

\* Python's a / b on numbers: ZeroDivisionError when b is zero.
TrueDiv(a, b) ==
    IF Sign(b) = 0 THEN Raise("ZeroDivisionError")
    ELSE LET n == IntMul(a.num, b.den)
             d == IntMul(a.den, b.num)
         IN  Return(IF b.num.neg THEN [num |-> IntNeg(n), den |-> IntNeg(d)]
                    ELSE [num |-> n, den |-> d])

\* Python's x ** 2
Pow2(a) == Mul(a, a)

\* Python's sum(): a left fold of + starting from the int 0
RECURSIVE SumFrom(_, _)
SumFrom(acc, s) == IF s = <<>> THEN acc ELSE SumFrom(Add(acc, Head(s)), Tail(s))

sum(s) == SumFrom(Zero, s)

\* math.sqrt: ValueError ("math domain error") below zero, else the
\* non-negative real root, kept exact as [sqrt |-> radicand]
sqrt(a) ==
    IF Sign(a) < 0 THEN Raise("ValueError") ELSE Return([sqrt |-> a])

\* math.log: ValueError ("math domain error") at or below zero, else the
\* natural logarithm, kept exact as [log |-> argument]
log(a) ==
    IF Sign(a) <= 0 THEN Raise("ValueError") ELSE Return([log |-> a])

(***************************************************************************)
(* '{:.1f}%'.format(v): v written with one decimal digit, the digit        *)
(* rounded half-to-even on the exact value, "-" first when v is negative,  *)
(* "%" last.  The string is a sequence of one-character strings.           *)
(***************************************************************************)
RECURSIVE NatValue(_)
NatValue(a) == IF a = <<>> THEN 0 ELSE Head(a) + Base * NatValue(Tail(a))

DigitChar == <<"0", "1", "2", "3", "4", "5", "6", "7", "8", "9">>

RECURSIVE Decimal(_)
Decimal(k) ==
    IF k < 10 THEN <<DigitChar[k + 1]>>
    ELSE Decimal(k \div 10) \o <<DigitChar[(k % 10) + 1]>>

RoundHalfEven(n, d) ==
    LET q == n \div d
        r == n % d
    IN  IF 2 * r < d THEN q
        ELSE IF 2 * r > d THEN q + 1
        ELSE IF q % 2 = 0 THEN q ELSE q + 1

FormatPercent1f(v) ==
    LET tenths == RoundHalfEven(10 * NatValue(v.num.mag), NatValue(v.den.mag))
    IN  (IF v.num.neg THEN <<"-">> ELSE <<>>)
        \o Decimal(tenths \div 10) \o <<".", DigitChar[(tenths % 10) + 1], "%">>

(***************************************************************************)
(* The functions of helpers.py.                                            *)
(***************************************************************************)
len(s) == Num(Len(s), 1)

display_as_percentage(val) == Return(FormatPercent1f(Mul(val, Num(100, 1))))

\* variant: the two prices exchanged, log(start_price / end_price)
calculate_log_return_swapped(start_price, end_price) ==
    LET ratio == TrueDiv(start_price, end_price)
    IN  IF ratio.kind = "raise" THEN ratio ELSE log(ratio.value)

calculate_log_return(start_price, end_price) ==
    LET ratio == TrueDiv(end_price, start_price)
    IN  IF ratio.kind = "raise" THEN ratio ELSE log(ratio.value)

\* the loop of lines 21-22: numerator += (data-mean) ** 2 for each data
RECURSIVE SquaredDeviations(_, _, _)
SquaredDeviations(numerator, dataset, mean) ==
    IF dataset = <<>> THEN numerator
    ELSE SquaredDeviations(Add(numerator, Pow2(Sub(Head(dataset), mean))),
                           Tail(dataset), mean)

\* variant: the sample variance, dividing by len(dataset) - 1
calculate_variance_sample(dataset) ==
    LET mean == TrueDiv(sum(dataset), len(dataset))
    IN  IF mean.kind = "raise" THEN mean
        ELSE LET numerator == SquaredDeviations(Zero, dataset, mean.value)
             IN  TrueDiv(numerator, Sub(len(dataset), Num(1, 1)))

\* variant: an empty dataset answered with 0 instead of failing
calculate_variance_guarded(dataset) ==
    IF dataset = <<>> THEN Return(Zero)
    ELSE LET mean == TrueDiv(sum(dataset), len(dataset))
             numerator == SquaredDeviations(Zero, dataset, mean.value)
         IN  TrueDiv(numerator, len(dataset))

calculate_variance(dataset) ==
    LET mean == TrueDiv(sum(dataset), len(dataset))
    IN  IF mean.kind = "raise" THEN mean
        ELSE LET numerator == SquaredDeviations(Zero, dataset, mean.value)
             IN  TrueDiv(numerator, len(dataset))

\* variant: the root of the sum of squared deviations, never divided by n
calculate_stddev_undivided(dataset) ==
    LET mean == TrueDiv(sum(dataset), len(dataset))
    IN  IF mean.kind = "raise" THEN mean
        ELSE sqrt(SquaredDeviations(Zero, dataset, mean.value))

calculate_stddev(dataset) ==
    LET variance == calculate_variance(dataset)
    IN  IF variance.kind = "raise" THEN variance ELSE sqrt(variance.value)

\* zip(set_x, set_y): pairs up to the shorter of the two
zip(a, b) ==
    [i \in 1..(IF Len(a) < Len(b) THEN Len(a) ELSE Len(b)) |-> <<a[i], b[i]>>]

Squares(s) == [i \in 1..Len(s) |-> Pow2(s[i])]

Products(z) == [i \in 1..Len(z) |-> Mul(z[i][1], z[i][2])]

\* numerator / denominator where denominator is a value of math.sqrt:
\* ZeroDivisionError when it is 0.0, else the exact quotient, kept as
\* [numerator, denominator]
DivBySqrt(numerator, denominator) ==
    IF Sign(denominator.sqrt) = 0 THEN Raise("ZeroDivisionError")
    ELSE Return([numerator |-> numerator, denominator |-> denominator])

\* variant: sum_x and sum_y not squared in the denominator
calculate_correlation_unsquared(set_x, set_y) ==
    LET sum_x == sum(set_x)
        sum_y == sum(set_y)
        sum_x2 == sum(Squares(set_x))
        sum_y2 == sum(Squares(set_y))
        sum_xy == sum(Products(zip(set_x, set_y)))
        n == len(set_x)
        numerator == Sub(Mul(n, sum_xy), Mul(sum_x, sum_y))
        denominator == sqrt(Mul(Sub(Mul(n, sum_x2), sum_x),
                                Sub(Mul(n, sum_y2), sum_y)))
    IN  IF denominator.kind = "raise" THEN denominator
        ELSE DivBySqrt(numerator, denominator.value)

\* variant: sum_y2 copied from sum_x2 without renaming the list
calculate_correlation_copied(set_x, set_y) ==
    LET sum_x == sum(set_x)
        sum_y == sum(set_y)
        sum_x2 == sum(Squares(set_x))
        sum_y2 == sum(Squares(set_x))
        sum_xy == sum(Products(zip(set_x, set_y)))
        n == len(set_x)
        numerator == Sub(Mul(n, sum_xy), Mul(sum_x, sum_y))
        denominator == sqrt(Mul(Sub(Mul(n, sum_x2), Pow2(sum_x)),
                                Sub(Mul(n, sum_y2), Pow2(sum_y))))
    IN  IF denominator.kind = "raise" THEN denominator
        ELSE DivBySqrt(numerator, denominator.value)

\* variant: the denominator without its square root (sqrt of its square)
calculate_correlation_no_sqrt(set_x, set_y) ==
    LET sum_x == sum(set_x)
        sum_y == sum(set_y)
        sum_x2 == sum(Squares(set_x))
        sum_y2 == sum(Squares(set_y))
        sum_xy == sum(Products(zip(set_x, set_y)))
        n == len(set_x)
        numerator == Sub(Mul(n, sum_xy), Mul(sum_x, sum_y))
        denominator == sqrt(Pow2(Mul(Sub(Mul(n, sum_x2), Pow2(sum_x)),
                                     Sub(Mul(n, sum_y2), Pow2(sum_y)))))
    IN  IF denominator.kind = "raise" THEN denominator
        ELSE DivBySqrt(numerator, denominator.value)

\* variant: the numerator's difference written as a sum
calculate_correlation_plus(set_x, set_y) ==
    LET sum_x == sum(set_x)
        sum_y == sum(set_y)
        sum_x2 == sum(Squares(set_x))
        sum_y2 == sum(Squares(set_y))
        sum_xy == sum(Products(zip(set_x, set_y)))
        n == len(set_x)
        numerator == Add(Mul(n, sum_xy), Mul(sum_x, sum_y))
        denominator == sqrt(Mul(Sub(Mul(n, sum_x2), Pow2(sum_x)),
                                Sub(Mul(n, sum_y2), Pow2(sum_y))))
    IN  IF denominator.kind = "raise" THEN denominator
        ELSE DivBySqrt(numerator, denominator.value)

calculate_correlation(set_x, set_y) ==
    LET sum_x == sum(set_x)
        sum_y == sum(set_y)
        sum_x2 == sum(Squares(set_x))
        sum_y2 == sum(Squares(set_y))
        sum_xy == sum(Products(zip(set_x, set_y)))
        n == len(set_x)
        numerator == Sub(Mul(n, sum_xy), Mul(sum_x, sum_y))
        denominator == sqrt(Mul(Sub(Mul(n, sum_x2), Pow2(sum_x)),
                                Sub(Mul(n, sum_y2), Pow2(sum_y))))
    IN  IF denominator.kind = "raise" THEN denominator
        ELSE DivBySqrt(numerator, denominator.value)

(***************************************************************************)
(* State: the two module-level lists, two datasets the caller owns, and    *)
(* the last call made: its function, its arguments and its outcome.        *)
(***************************************************************************)
VARIABLES amazon_prices, ebay_prices, set_x, set_y, called, args, result

vars == <<amazon_prices, ebay_prices, set_x, set_y, called, args, result>>

data == <<amazon_prices, ebay_prices, set_x, set_y>>

\* a price literal with two decimals, given in hundredths: 1699.8 is Cents(169980)
Cents(h) == Num(h, 100)

AmazonPrices ==
    <<Cents(169980), Cents(177744), Cents(201271), Cents(200300),
      Cents(159801), Cents(169017), Cents(150197), Cents(171873),
      Cents(163983), Cents(178075), Cents(192652), Cents(177507),
      Cents(189363)>>

EbayPrices ==
    <<Cents(3598), Cents(3320), Cents(3435), Cents(3277), Cents(2881),
      Cents(2962), Cents(2786), Cents(3339), Cents(3701), Cents(3700),
      Cents(3860), Cents(3593), Cents(3950)>>

(***************************************************************************)
(* Bounds of the inputs.                                                   *)
(***************************************************************************)
MaxLen == 3         \* longest dataset given to the statistics
MaxVal == 1         \* correlation datasets hold the ints 0..MaxVal
MaxAbs == 2         \* variance datasets hold the ints -MaxAbs..MaxAbs
MaxPrice == 2       \* log-return prices are the ints -MaxPrice..MaxPrice
MaxSixteenths == 4  \* fractions shown are k/16, -MaxSixteenths <= k <= MaxSixteenths
FrameLen == 1       \* longest dataset where every function is called in turn

Ints(lo, hi) == {Num(k, 1) : k \in lo..hi}

Datasets(values, maxlen) == UNION {[1..k -> values] : k \in 0..maxlen}

\* the dataset of the documented variance example
Example12345 == <<Num(1, 1), Num(2, 1), Num(3, 1), Num(4, 1), Num(5, 1)>>

\* [-v for v in x]
Negated(x) == [i \in 1..Len(x) |-> Neg(x[i])]

NoCall ==
    /\ called = "none"
    /\ args = <<>>
    /\ result = [kind |-> "none"]

Constants ==
    /\ amazon_prices = AmazonPrices
    /\ ebay_prices = EbayPrices

\* the caller's two datasets: any two of `datasets`, or the two price lists
CallerData(datasets) ==
    \/ set_x \in datasets /\ set_y \in datasets
    \/ set_x = amazon_prices /\ set_y = ebay_prices

(***************************************************************************)
(* One action per function: the call's arguments are drawn from the       *)
(* caller's datasets (which may be the module's price lists), its outcome  *)
(* is recorded, and nothing else is assigned.                              *)
(***************************************************************************)
Lists == {set_x, set_y}

Prices == Ints(0 - MaxPrice, MaxPrice)

CallDisplayAsPercentage ==
    \E k \in (0 - MaxSixteenths)..MaxSixteenths :
        /\ called' = "display_as_percentage"
        /\ args' = <<Num(k, 16)>>
        /\ result' = display_as_percentage(Num(k, 16))
        /\ UNCHANGED data

CallLogReturn ==
    \E start_price \in Prices, end_price \in Prices :
        /\ called' = "calculate_log_return"
        /\ args' = <<start_price, end_price>>
        /\ result' = calculate_log_return(start_price, end_price)
        /\ UNCHANGED data

\* variant: the dataset centred in place (data - mean written back to the list)
CallVarianceInPlace ==
    \E which \in {"set_x", "set_y"} :
        LET dataset == IF which = "set_x" THEN set_x ELSE set_y
            mean == TrueDiv(sum(dataset), len(dataset))
            centred == IF mean.kind = "raise" THEN dataset
                       ELSE [i \in 1..Len(dataset) |-> Sub(dataset[i], mean.value)]
        IN  /\ called' = "calculate_variance"
            /\ args' = <<dataset>>
            /\ result' = calculate_variance(dataset)
            /\ set_x' = IF which = "set_x" THEN centred ELSE set_x
            /\ set_y' = IF which = "set_y" THEN centred ELSE set_y
            /\ UNCHANGED <<amazon_prices, ebay_prices>>

CallVariance ==
    \E dataset \in Lists :
        /\ called' = "calculate_variance"
        /\ args' = <<dataset>>
        /\ result' = calculate_variance(dataset)
        /\ UNCHANGED data

CallStddev ==
    \E dataset \in Lists :
        /\ called' = "calculate_stddev"
        /\ args' = <<dataset>>
        /\ result' = calculate_stddev(dataset)
        /\ UNCHANGED data

CorrelationArgs == {<<set_x, set_y>>, <<set_x, Negated(set_x)>>}

CallCorrelation ==
    \E a \in CorrelationArgs :
        /\ called' = "calculate_correlation"
        /\ args' = a
        /\ result' = calculate_correlation(a[1], a[2])
        /\ UNCHANGED data

(***************************************************************************)
(* Spec: any sequence of calls of the five functions.                      *)
(***************************************************************************)
Init ==
    /\ Constants
    /\ CallerData(Datasets(Ints(0, MaxVal), FrameLen))
    /\ NoCall

Next ==
    \/ CallDisplayAsPercentage
    \/ CallLogReturn
    \/ CallVariance
    \/ CallStddev
    \/ CallCorrelation

Spec == Init /\ [][Next]_vars

(***************************************************************************)
(* SpecVariance: calculate_variance and calculate_stddev on one dataset.   *)
(***************************************************************************)
InitVariance ==
    /\ Constants
    /\ set_x \in Datasets(Ints(0 - MaxAbs, MaxAbs), MaxLen)
                 \cup {Example12345, amazon_prices, ebay_prices}
    /\ set_y = set_x
    /\ NoCall

NextVariance == CallVariance \/ CallStddev

SpecVariance == InitVariance /\ [][NextVariance]_vars

(***************************************************************************)
(* SpecCorrelation: calculate_correlation on every pair of datasets and on *)
(* the two price lists, and on each first dataset and its negation.        *)
(***************************************************************************)
InitCorrelation ==
    /\ Constants
    /\ CallerData(Datasets(Ints(0, MaxVal), MaxLen))
    /\ NoCall

NextCorrelation == CallCorrelation

SpecCorrelation == InitCorrelation /\ [][NextCorrelation]_vars

(***************************************************************************)
(* Vocabulary of the properties.                                           *)
(***************************************************************************)
One == Num(1, 1)

\* a = b and a <= b on numbers, by cross-multiplication
Eq(a, b) == IntSign(IntSub(IntMul(a.num, b.den), IntMul(b.num, a.den))) = 0

LessEq(a, b) == Sign(Sub(a, b)) <= 0

Called(f) == called = f

Returned == result.kind = "return"

Raised(e) == result = Raise(e)

IsConstant(s) == \A i, j \in 1..Len(s) : Eq(s[i], s[j])

\* both lists of the same, nonzero length
Paired(a) == Len(a[1]) = Len(a[2]) /\ Len(a[1]) > 0

\* n * sum of squares - square of sum: n * n * (population variance) for n = Len(s)
Spread(s) == Sub(Mul(len(s), sum(Squares(s))), Pow2(sum(s)))

\* a coefficient numerator / sqrt(radicand) compared with 1 and -1
AtMostOneInMagnitude(v) == LessEq(Pow2(v.numerator), v.denominator.sqrt)

IsPlusOne(v) ==
    Sign(v.numerator) > 0 /\ Eq(Pow2(v.numerator), v.denominator.sqrt)

IsMinusOne(v) ==
    Sign(v.numerator) < 0 /\ Eq(Pow2(v.numerator), v.denominator.sqrt)

\* two outcomes of calculate_correlation that are the same exception or the
\* same real number: equal signs, and equal squares by cross-multiplication
SameCoefficient(r1, r2) ==
    /\ r1.kind = r2.kind
    /\ r1.kind = "raise" => r1.exc = r2.exc
    /\ r1.kind = "return" =>
          /\ Sign(r1.value.numerator) = Sign(r2.value.numerator)
          /\ Eq(Mul(Pow2(r1.value.numerator), r2.value.denominator.sqrt),
                Mul(Pow2(r2.value.numerator), r1.value.denominator.sqrt))

\* C1: whenever calculate_correlation is called on two lists of different
\* lengths (either one the longer), the call raises and returns no number.
C1_MismatchedLengthsRaise ==
    (Called("calculate_correlation") /\ Len(args[1]) # Len(args[2]))
        => result.kind = "raise"

C3_EmptyInputRaises ==
    /\ (Called("calculate_variance") /\ args[1] = <<>>)
          => Raised("ZeroDivisionError")
    /\ (Called("calculate_stddev") /\ args[1] = <<>>)
          => Raised("ZeroDivisionError")
    /\ (Called("calculate_correlation") /\ args[1] = <<>> /\ args[2] = <<>>)
          => Raised("ZeroDivisionError")

C3_Witness ==
    /\ Called("calculate_stddev")
    /\ args[1] = <<>>
    /\ Raised("ZeroDivisionError")

C5_Symmetric ==
    (Called("calculate_correlation") /\ Paired(args)
        /\ ~IsConstant(args[1]) /\ ~IsConstant(args[2]))
        => /\ Returned
           /\ SameCoefficient(result, calculate_correlation(args[2], args[1]))

C5_Witness ==
    /\ Called("calculate_correlation")
    /\ Len(args[1]) = 3 /\ Len(args[2]) = 3
    /\ ~IsConstant(args[1]) /\ ~IsConstant(args[2])
    /\ args[1] # args[2]
    /\ Returned
    /\ ~IsPlusOne(result.value) /\ ~IsMinusOne(result.value)

C8_LogReturnDomain ==
    Called("calculate_log_return") =>
        LET start_price == args[1]
            end_price == args[2]
            ratio_positive == Sign(start_price) * Sign(end_price) > 0
        IN  /\ Raised("ZeroDivisionError") <=> Sign(start_price) = 0
            /\ Raised("ValueError") <=> (Sign(start_price) # 0 /\ ~ratio_positive)
            /\ Returned <=> (Sign(start_price) # 0 /\ ratio_positive)
            /\ (Sign(start_price) > 0 /\ Eq(start_price, end_price))
                  => (Returned /\ Eq(result.value.log, One))

C8_Witness ==
    /\ Called("calculate_log_return")
    /\ Sign(args[1]) > 0
    /\ args[2] = args[1]
    /\ Returned
    /\ Eq(result.value.log, One)

\* C9: on a non-empty dataset calculate_variance returns a value >= 0 and
\* calculate_stddev returns its non-negative square root (squared, it is the
\* variance); calculate_stddev raises exactly when calculate_variance does,
\* and then the same exception.
C9_StddevIsRootOfVariance ==
    /\ (Called("calculate_variance") /\ args[1] # <<>>)
          => (Returned /\ Sign(result.value) >= 0)
    /\ Called("calculate_stddev") =>
          LET variance == calculate_variance(args[1])
          IN  /\ args[1] # <<>> => Returned
              /\ Returned =>
                    /\ variance.kind = "return"
                    /\ Sign(result.value.sqrt) >= 0
                    /\ Eq(result.value.sqrt, variance.value)
              /\ result.kind = "raise" => result = variance

C9_Witness ==
    /\ Called("calculate_stddev")
    /\ Len(args[1]) = 3
    /\ ~IsConstant(args[1])
    /\ Returned
    /\ Sign(result.value.sqrt) > 0

\* the outcome of calling f on the arguments a, from a alone
Outcome(f, a) ==
    CASE f = "display_as_percentage" -> display_as_percentage(a[1])
      [] f = "calculate_log_return" -> calculate_log_return(a[1], a[2])
      [] f = "calculate_variance" -> calculate_variance(a[1])
      [] f = "calculate_stddev" -> calculate_stddev(a[1])
      [] f = "calculate_correlation" -> calculate_correlation(a[1], a[2])

\* C10: every call of the five functions, returning or raising, leaves the
\* caller's datasets and amazon_prices and ebay_prices as they were (the 13
\* listed values each, in order), and its outcome is the one its arguments
\* alone determine.
C10_NothingButTheResultChanges ==
    /\ [][/\ data' = data
          /\ result' = Outcome(called', args')]_vars
    /\ [](/\ amazon_prices = AmazonPrices /\ Len(amazon_prices) = 13
          /\ ebay_prices = EbayPrices /\ Len(ebay_prices) = 13)

C10_Witness ==
    /\ Called("calculate_stddev")
    /\ args = <<amazon_prices>>
    /\ set_x = AmazonPrices
    /\ Returned
====
